---- MODULE Spec2Model ----
(***************************************************************************)
(* Model of src/hash.rs: the Hash struct (grayscale buffer, binary hash,   *)
(* four subarea medians), its constructors from_grayimage / from_hexhash   *)
(* and its renderers to_hex / to_string_hex.                               *)
(*                                                                         *)
(* Arrays ([T; n]) are functions on 0..n-1, Vec and String are sequences,  *)
(* char is a one-character string.  An optional value is None (<<>>) or    *)
(* Some(v) (<<v>>); a call that ends the process returns None.             *)
(***************************************************************************)
EXTENDS Integers, Sequences, FiniteSets, TLC

\* crate::SIZE, the side of the normalised image.
SIZE == 16
\* const HASHLEN: usize = (SIZE*SIZE) as usize;
HASHLEN == SIZE * SIZE
\* The index read from each sorted subarea vector (top_left[32], ...).
MedianIndex == 32

\* Bounds of the explored inputs.
MaxCoef == 2
MaxMod == 4
MaxHexMul == 3
MaxHexOff == 3

None == <<>>
Some(v) == <<v>>
NoChar == "None"
Indices == 0 .. (HASHLEN - 1)
HexIndices == 0 .. ((HASHLEN \div 4) - 1)
SubAreas == {"TopLeft", "TopRight", "BottomLeft", "BottomRight"}

VARIABLES
    hash,        \* the Hash value the caller holds
    kind,        \* which constructor produced it: "new", "from_grayimage", "from_hexhash"
    img,         \* Some(the GrayImage last passed to from_grayimage), None before
    hexhash,     \* Some(the [char; HASHLEN/4] last passed to from_hexhash), None before
    hex_hash,    \* Some(the array to_hex returned) while the caller holds it, else None
    encoded,     \* Some(binary256 of the Hash that hex_hash was rendered from)
    roundtrip,   \* TRUE iff hash is from_hexhash(hex_hash), hex_hash rendered from encoded
    string_hex,  \* Some(the String to_string_hex returned for hash), else None
    outcome,     \* "ok", "panic" (unwrap on a failed decode), "exit" (process::exit(1))
    li,          \* set_subarea_medians: index of the next element of the enumerate loop
    vecs,        \* set_subarea_medians: the four Vec<u8> (top_left, top_right, bot_left, bot_right)
    from         \* for each vector, the indices whose values were pushed to it

vars == <<hash, kind, img, hexhash, hex_hash, encoded, roundtrip, string_hex,
          outcome, li, vecs, from>>

----------------------------------------------------------------------------
\* Hash::new
new ==
    [ grayimage256    |-> [i \in Indices |-> 0],
      binary256       |-> [i \in Indices |-> 0],
      subarea_medians |-> [a \in 0..1 |-> [b \in 0..1 |-> 0]] ]

\* Hash::set_grayimage: every pixel (x, y, pix) of the image is stored at x + SIZE*y.
set_grayimage(self, image) ==
    [self EXCEPT !.grayimage256 =
        [k \in Indices |->
            LET at_k == {x \in 0 .. (SIZE - 1) :
                            /\ <<x, (k - x) \div SIZE>> \in DOMAIN image
                            /\ x + SIZE * ((k - x) \div SIZE) = k}
            IN  IF at_k # {}
                THEN LET x == CHOOSE c \in at_k : TRUE IN image[<<x, (k - x) \div SIZE>>]
                ELSE self.grayimage256[k]]]

\* get_subarea with the left half one column too wide.
get_subarea_wide_left(i) ==
    IF i % SIZE <= SIZE \div 2
    THEN IF i < HASHLEN \div 2 THEN "TopLeft" ELSE "BottomLeft"
    ELSE IF i < HASHLEN \div 2 THEN "TopRight" ELSE "BottomRight"

\* get_subarea with the labels BottomLeft and TopRight exchanged.
get_subarea_transposed(i) ==
    IF i % SIZE < SIZE \div 2
    THEN IF i < HASHLEN \div 2 THEN "TopLeft" ELSE "TopRight"
    ELSE IF i < HASHLEN \div 2 THEN "BottomLeft" ELSE "BottomRight"

\* Hash::get_subarea
get_subarea(i) ==
    IF i % SIZE < SIZE \div 2
    THEN IF i < HASHLEN \div 2 THEN "TopLeft" ELSE "BottomLeft"
    ELSE IF i < HASHLEN \div 2 THEN "TopRight" ELSE "BottomRight"

\* The four empty vectors of set_subarea_medians.
empty_vecs == [top_left |-> <<>>, top_right |-> <<>>, bot_left |-> <<>>, bot_right |-> <<>>]

\* One iteration of the enumerate loop of set_subarea_medians: push val to the
\* vector that get_subarea(i) selects.
push(v, i, val) ==
    CASE get_subarea(i) = "TopLeft"     -> [v EXCEPT !.top_left  = Append(@, val)]
      [] get_subarea(i) = "TopRight"    -> [v EXCEPT !.top_right = Append(@, val)]
      [] get_subarea(i) = "BottomLeft"  -> [v EXCEPT !.bot_left  = Append(@, val)]
      [] get_subarea(i) = "BottomRight" -> [v EXCEPT !.bot_right = Append(@, val)]

\* The enumerate loop of set_subarea_medians over the indices lo .. hi-1 in
\* order, starting from empty vectors: the pushes of the first half of the
\* range followed by the pushes of the second half.
RECURSIVE collect(_, _, _)
collect(gray, lo, hi) ==
    IF hi <= lo THEN empty_vecs
    ELSE IF hi = lo + 1 THEN push(empty_vecs, lo, gray[lo])
    ELSE LET mid   == (lo + hi) \div 2
             first == collect(gray, lo, mid)
             rest  == collect(gray, mid, hi)
         IN  [ top_left  |-> first.top_left  \o rest.top_left,
               top_right |-> first.top_right \o rest.top_right,
               bot_left  |-> first.bot_left  \o rest.bot_left,
               bot_right |-> first.bot_right \o rest.bot_right ]

\* Vec::sort_by(|a, b| a.partial_cmp(b).unwrap()): the stable ascending sort.
\* Element i moves to the position after the smaller elements and after the
\* equal elements that precede it.
sort_by(v) ==
    LET n   == Len(v)
        pos == [i \in 1..n |->
                  Cardinality({j \in 1..n : v[j] < v[i]})
                    + Cardinality({j \in 1..i : v[j] = v[i]})]
    IN  [k \in 1..n |-> v[CHOOSE i \in 1..n : pos[i] = k]]

\* v[k] of a Vec (0-indexed); -1 stands for the index-out-of-bounds panic.
at(v, k) == IF k < Len(v) THEN v[k + 1] ELSE -1

\* store_medians without the four sorts.
store_medians_unsorted(self, v) ==
    [self EXCEPT !.subarea_medians =
        [a \in 0..1 |-> [b \in 0..1 |->
            CASE a = 0 /\ b = 0 -> at(v.top_left, MedianIndex)
              [] a = 1 /\ b = 0 -> at(v.top_right, MedianIndex)
              [] a = 0 /\ b = 1 -> at(v.bot_left, MedianIndex)
              [] a = 1 /\ b = 1 -> at(v.bot_right, MedianIndex)]]]

\* store_medians reading the element after MedianIndex.
store_medians_next(self, v) ==
    LET tl == sort_by(v.top_left)
        tr == sort_by(v.top_right)
        bl == sort_by(v.bot_left)
        br == sort_by(v.bot_right)
    IN  [self EXCEPT !.subarea_medians =
            [a \in 0..1 |-> [b \in 0..1 |->
                CASE a = 0 /\ b = 0 -> at(tl, MedianIndex + 1)
                  [] a = 1 /\ b = 0 -> at(tr, MedianIndex + 1)
                  [] a = 0 /\ b = 1 -> at(bl, MedianIndex + 1)
                  [] a = 1 /\ b = 1 -> at(br, MedianIndex + 1)]]]

\* The tail of set_subarea_medians: sort the four vectors, store element MedianIndex of each.
store_medians(self, v) ==
    LET tl == sort_by(v.top_left)
        tr == sort_by(v.top_right)
        bl == sort_by(v.bot_left)
        br == sort_by(v.bot_right)
    IN  [self EXCEPT !.subarea_medians =
            [a \in 0..1 |-> [b \in 0..1 |->
                CASE a = 0 /\ b = 0 -> at(tl, MedianIndex)
                  [] a = 1 /\ b = 0 -> at(tr, MedianIndex)
                  [] a = 0 /\ b = 1 -> at(bl, MedianIndex)
                  [] a = 1 /\ b = 1 -> at(br, MedianIndex)]]]

\* Hash::set_subarea_medians
set_subarea_medians(self) == store_medians(self, collect(self.grayimage256, 0, HASHLEN))

\* The median that set_binary_hash_from_grayimage selects for index i.
median_of(self, i) ==
    CASE get_subarea(i) = "TopLeft"     -> self.subarea_medians[0][0]
      [] get_subarea(i) = "TopRight"    -> self.subarea_medians[1][0]
      [] get_subarea(i) = "BottomLeft"  -> self.subarea_medians[0][1]
      [] get_subarea(i) = "BottomRight" -> self.subarea_medians[1][1]

\* set_binary_hash_from_grayimage comparing with > instead of >=.
set_binary_hash_strict(self) ==
    [self EXCEPT !.binary256 =
        [i \in Indices |-> IF self.grayimage256[i] > median_of(self, i) THEN 1 ELSE 0]]

\* set_binary_hash_from_grayimage storing 255 instead of 1.
set_binary_hash_white(self) ==
    [self EXCEPT !.binary256 =
        [i \in Indices |-> IF self.grayimage256[i] >= median_of(self, i) THEN 255 ELSE 0]]

\* Hash::set_binary_hash_from_grayimage
set_binary_hash_from_grayimage(self) ==
    [self EXCEPT !.binary256 =
        [i \in Indices |-> IF self.grayimage256[i] >= median_of(self, i) THEN 1 ELSE 0]]

\* Hash::from_grayimage
from_grayimage(image) ==
    set_binary_hash_from_grayimage(set_subarea_medians(set_grayimage(new, image)))

----------------------------------------------------------------------------
\* The match table of to_hex: the 4-element slice patterns and their characters.
hex_table ==
    << <<<<0,0,0,0>>, "0">>, <<<<0,0,0,1>>, "1">>, <<<<0,0,1,0>>, "2">>, <<<<0,0,1,1>>, "3">>,
       <<<<0,1,0,0>>, "4">>, <<<<0,1,0,1>>, "5">>, <<<<0,1,1,0>>, "6">>, <<<<0,1,1,1>>, "7">>,
       <<<<1,0,0,0>>, "8">>, <<<<1,0,0,1>>, "9">>, <<<<1,0,1,0>>, "A">>, <<<<1,0,1,1>>, "B">>,
       <<<<1,1,0,0>>, "C">>, <<<<1,1,0,1>>, "D">>, <<<<1,1,1,0>>, "E">>, <<<<1,1,1,1>>, "F">> >>

\* hexval reading the slice least significant bit first.
hexval_lsb_first(self, i) ==
    LET slice == <<self.binary256[4*i + 3], self.binary256[4*i + 2],
                   self.binary256[4*i + 1], self.binary256[4*i]>>
    IN  IF \E t \in 1..Len(hex_table) : hex_table[t][1] = slice
        THEN hex_table[CHOOSE t \in 1..Len(hex_table) : hex_table[t][1] = slice][2]
        ELSE NoChar

\* The match expression of to_hex for group i: Some(char) of the arm that matches
\* binary256[(4*i)..(4*i+4)], NoChar for the wildcard arm.
hexval(self, i) ==
    LET slice == <<self.binary256[4*i], self.binary256[4*i + 1],
                   self.binary256[4*i + 2], self.binary256[4*i + 3]>>
    IN  IF \E t \in 1..Len(hex_table) : hex_table[t][1] = slice
        THEN hex_table[CHOOSE t \in 1..Len(hex_table) : hex_table[t][1] = slice][2]
        ELSE NoChar

\* Hash::to_hex: Some(array of characters), or None when the loop reaches
\* std::process::exit(1).
to_hex(self) ==
    IF \E i \in HexIndices : hexval(self, i) = NoChar
    THEN None
    ELSE Some([i \in HexIndices |-> hexval(self, i)])

\* Hash::to_string_hex: the characters of to_hex concatenated into a String.
to_string_hex(self) ==
    LET h == to_hex(self)
    IN  IF h = None THEN None ELSE Some([k \in 1..(HASHLEN \div 4) |-> h[1][k - 1]])

\* crate::hashmath::hex_to_binary: the 4-bit group of a hex digit, most
\* significant bit first; None for a character outside 0-9, A-F.
hex_to_binary(c) ==
    IF \E t \in 1..Len(hex_table) : hex_table[t][2] = c
    THEN hex_table[CHOOSE t \in 1..Len(hex_table) : hex_table[t][2] = c][1]
    ELSE None

\* The writes of the nested loops of from_hexhash, inner iterations lo .. hi-1
\* in order, as the function from each written index to the value it holds at
\* the end; iteration n has i = n div 4 and j = n mod 4 and performs
\* binaryhash[i+j] = *b, and a later write to an index replaces an earlier one.
RECURSIVE decode_loop(_, _, _)
decode_loop(hex, lo, hi) ==
    IF hi <= lo THEN <<>>
    ELSE IF hi = lo + 1
         THEN LET i == lo \div 4
                  j == lo % 4
              IN  (i + j) :> hex_to_binary(hex[i])[j + 1]
    ELSE LET mid == (lo + hi) \div 2
         IN  decode_loop(hex, mid, hi) @@ decode_loop(hex, lo, mid)

\* from_hexhash also storing the decoded bits, as black and white, in grayimage256.
from_hexhash_with_gray(hex) ==
    IF \E i \in HexIndices : hex_to_binary(hex[i]) = None
    THEN None
    ELSE LET written == decode_loop(hex, 0, HASHLEN)
             bin == [k \in Indices |-> IF k \in DOMAIN written THEN written[k] ELSE 0]
         IN  Some([new EXCEPT !.binary256 = bin,
                              !.grayimage256 = [k \in Indices |-> 255 * bin[k]]])

\* Hash::from_hexhash: Some(Hash), or None when hex_to_binary(..).unwrap() panics.
from_hexhash(hex) ==
    IF \E i \in HexIndices : hex_to_binary(hex[i]) = None
    THEN None
    ELSE LET written == decode_loop(hex, 0, HASHLEN)
         IN  Some([new EXCEPT !.binary256 =
                     [k \in Indices |-> IF k \in DOMAIN written THEN written[k] ELSE 0]])

----------------------------------------------------------------------------
\* Input images: SIZE x SIZE grids of u8 pixels.
Pixels == (0 .. (SIZE - 1)) \X (0 .. (SIZE - 1))

\* The image of the spec's scenario: the top-left quadrant ascends 0..63, the rest is 200.
AscendingTopLeft ==
    [p \in Pixels |->
        IF p[1] < SIZE \div 2 /\ p[2] < SIZE \div 2 THEN p[1] + (SIZE \div 2) * p[2] ELSE 200]

\* Patterned images; a = b = c = 0 is a constant image, m = 1 the all-black image.
Pattern(a, b, c, m) ==
    [p \in Pixels |-> (51 * ((a * p[1] + b * p[2] + c * p[1] * p[2]) % m)) % 256]

Images ==
    {AscendingTopLeft} \cup
    { Pattern(a, b, c, m) : a \in 0..MaxCoef, b \in 0..MaxCoef, c \in 0..1, m \in 1..MaxMod }

\* Input hex strings: valid ones, and ones holding a character outside the table.
HexChars == <<"0","1","2","3","4","5","6","7","8","9","A","B","C","D","E","F">>

ValidHex ==
    { [k \in HexIndices |-> HexChars[((p * k + q) % 16) + 1]] :
        p \in 0..MaxHexMul, q \in 0..MaxHexOff }

InvalidHex ==
    { [h EXCEPT ![k] = "G"] : h \in ValidHex, k \in {0, (HASHLEN \div 4) - 1} }

HexInputs == ValidHex \cup InvalidHex

\* from_grayimage tabulated over the input images.
hash_of_image == [image \in Images |-> from_grayimage(image)]

\* from_hexhash tabulated over the input hex arrays.
hash_of_hex == [hex \in HexInputs |-> from_hexhash(hex)]

----------------------------------------------------------------------------
Init ==
    /\ hash = new
    /\ kind = "new"
    /\ img = None
    /\ hexhash = None
    /\ hex_hash = None
    /\ encoded = None
    /\ roundtrip = FALSE
    /\ string_hex = None
    /\ outcome = "ok"
    /\ li = 0
    /\ vecs = empty_vecs
    /\ from = empty_vecs

\* A caller builds a Hash from an image.
Call_from_grayimage ==
    /\ outcome = "ok"
    /\ \E image \in Images :
        /\ img' = Some(image)
        /\ hash' = hash_of_image[image]
    /\ kind' = "from_grayimage"
    /\ hexhash' = None
    /\ hex_hash' = None
    /\ encoded' = None
    /\ roundtrip' = FALSE
    /\ string_hex' = None
    /\ UNCHANGED <<outcome, li, vecs, from>>

\* A caller renders the Hash it holds as a hex array.
Call_to_hex ==
    /\ outcome = "ok"
    /\ LET res == to_hex(hash)
       IN  /\ hex_hash' = res
           /\ outcome' = IF res = None THEN "exit" ELSE "ok"
    /\ encoded' = Some(hash.binary256)
    /\ roundtrip' = FALSE
    /\ UNCHANGED <<hash, kind, img, hexhash, string_hex, li, vecs, from>>

\* A caller renders the Hash it holds as a hex String.
Call_to_string_hex ==
    /\ outcome = "ok"
    /\ LET res == to_string_hex(hash)
       IN  /\ string_hex' = res
           /\ outcome' = IF res = None THEN "exit" ELSE "ok"
    /\ UNCHANGED <<hash, kind, img, hexhash, hex_hash, encoded, roundtrip, li, vecs, from>>

\* from_hexhash on the array hex, with result res; back says whether hex is the
\* array to_hex returned.
Decode(hex, res, back) ==
    /\ hexhash' = Some(hex)
    /\ string_hex' = None
    /\ IF res = None
       THEN /\ outcome' = "panic"
            /\ UNCHANGED <<hash, kind, img, hex_hash, encoded, roundtrip>>
       ELSE /\ outcome' = "ok"
            /\ hash' = res[1]
            /\ kind' = "from_hexhash"
            /\ img' = None
            /\ roundtrip' = back
            /\ hex_hash' = IF back THEN hex_hash ELSE None
            /\ encoded' = IF back THEN encoded ELSE None
    /\ UNCHANGED <<li, vecs, from>>

\* A caller rebuilds a Hash from a hex array it received from outside.
Call_from_hexhash ==
    /\ outcome = "ok"
    /\ \E hex \in HexInputs : Decode(hex, hash_of_hex[hex], FALSE)

\* A caller rebuilds a Hash from the array to_hex returned.
Call_from_hexhash_of_to_hex ==
    /\ outcome = "ok"
    /\ hex_hash # None
    /\ Decode(hex_hash[1], from_hexhash(hex_hash[1]), TRUE)

Next ==
    \/ Call_from_grayimage
    \/ Call_to_hex
    \/ Call_to_string_hex
    \/ Call_from_hexhash
    \/ Call_from_hexhash_of_to_hex

Spec == Init /\ [][Next]_vars

----------------------------------------------------------------------------
\* set_subarea_medians step by step, on the grayscale buffer of every input image.
InitMedians ==
    /\ \E image \in Images :
        /\ img = Some(image)
        /\ hash = set_grayimage(new, image)
    /\ kind = "new"
    /\ hexhash = None
    /\ hex_hash = None
    /\ encoded = None
    /\ roundtrip = FALSE
    /\ string_hex = None
    /\ outcome = "ok"
    /\ li = 0
    /\ vecs = empty_vecs
    /\ from = empty_vecs

\* One iteration of the enumerate loop.
LoopPush ==
    /\ li < HASHLEN
    /\ vecs' = push(vecs, li, hash.grayimage256[li])
    /\ from' = push(from, li, li)
    /\ li' = li + 1
    /\ UNCHANGED <<hash, kind, img, hexhash, hex_hash, encoded, roundtrip, string_hex, outcome>>

\* After the loop: the four sorts and the four stores.
StoreMedians ==
    /\ li = HASHLEN
    /\ hash' = store_medians(hash, vecs)
    /\ li' = HASHLEN + 1
    /\ UNCHANGED <<kind, img, hexhash, hex_hash, encoded, roundtrip, string_hex, outcome, vecs, from>>

\* The last step of from_grayimage.
SetBinary ==
    /\ li = HASHLEN + 1
    /\ kind = "new"
    /\ hash' = set_binary_hash_from_grayimage(hash)
    /\ kind' = "from_grayimage"
    /\ UNCHANGED <<img, hexhash, hex_hash, encoded, roundtrip, string_hex, outcome, li, vecs, from>>

NextMedians == LoopPush \/ StoreMedians \/ SetBinary

SpecMedians == InitMedians /\ [][NextMedians]_vars

----------------------------------------------------------------------------
\* The indices a vector of set_subarea_medians received.
Range(q) == {q[k] : k \in 1..Len(q)}

\* The entry of subarea_medians that holds the median of subarea q.
stored_median(self, q) ==
    CASE q = "TopLeft"     -> self.subarea_medians[0][0]
      [] q = "TopRight"    -> self.subarea_medians[1][0]
      [] q = "BottomLeft"  -> self.subarea_medians[0][1]
      [] q = "BottomRight" -> self.subarea_medians[1][1]

\* The indices of subarea q.
members(q) == {i \in Indices : get_subarea(i) = q}

\* The standard hex digit of the 4-bit number b0 b1 b2 b3, b0 most significant.
nibble(b, k) == HexChars[8 * b[4*k] + 4 * b[4*k + 1] + 2 * b[4*k + 2] + b[4*k + 3] + 1]

\* C1: a Hash rebuilt by from_hexhash from the array that to_hex returned for
\* a Hash F has the same binary256 as F, at every index.
C1_HexRoundTrip ==
    roundtrip => \A i \in Indices : hash.binary256[i] = encoded[1][i]

\* C2: from_hexhash on an array holding a character outside the decode table
\* ends in an error returned to the caller, not in the end of the process.
C2_InvalidHexRecoverable ==
    (hexhash # None /\ \E k \in HexIndices : hex_to_binary(hexhash[1][k]) = None)
        => outcome \notin {"panic", "exit"}

\* C3: after from_grayimage, binary256[i] is 1 exactly when grayimage256[i] is
\* at least the median stored for the subarea of i, and 0 otherwise.
C3_Binarization ==
    kind = "from_grayimage" =>
        \A i \in Indices :
            /\ hash.binary256[i] \in {0, 1}
            /\ hash.binary256[i] = 1
                 <=> hash.grayimage256[i] >= stored_median(hash, get_subarea(i))

\* C3 witness: a built Hash with a pixel equal to its median (bit 1) and a pixel below it.
C3_Witness ==
    /\ kind = "from_grayimage"
    /\ \E i \in Indices :
        /\ hash.grayimage256[i] = stored_median(hash, get_subarea(i))
        /\ hash.binary256[i] = 1
    /\ \E i \in Indices :
        /\ hash.grayimage256[i] < stored_median(hash, get_subarea(i))
        /\ hash.binary256[i] = 0

\* C4: after set_subarea_medians, the median stored for each subarea is the
\* value at ascending rank HASHLEN/8 (0-indexed) among the HASHLEN/4 pixels of
\* that subarea: a value of the subarea with at most HASHLEN/8 smaller values
\* and more than HASHLEN/8 values not above it.
C4_QuadrantThreshold ==
    kind = "from_grayimage" =>
        \A q \in SubAreas :
            LET t == stored_median(hash, q)
                g == hash.grayimage256
            IN  /\ Cardinality(members(q)) = HASHLEN \div 4
                /\ \E i \in members(q) : g[i] = t
                /\ Cardinality({i \in members(q) : g[i] < t}) <= HASHLEN \div 8
                /\ Cardinality({i \in members(q) : g[i] <= t}) > HASHLEN \div 8

\* C4 witness: the image whose top-left subarea ascends 0..63 and is 200 elsewhere
\* gets the medians 32, 200, 200, 200.
C4_Witness ==
    /\ kind = "from_grayimage"
    /\ img = Some(AscendingTopLeft)
    /\ stored_median(hash, "TopLeft") = 32
    /\ stored_median(hash, "TopRight") = 200
    /\ stored_median(hash, "BottomLeft") = 200
    /\ stored_median(hash, "BottomRight") = 200

\* C5: every index goes to exactly one of the four subareas; the four sets of
\* indices are pairwise disjoint, cover 0..HASHLEN-1 and have HASHLEN/4 elements each.
C5_QuadrantCoverage ==
    LET tl == Range(from.top_left)
        tr == Range(from.top_right)
        bl == Range(from.bot_left)
        br == Range(from.bot_right)
        done == 0 .. ((IF li > HASHLEN THEN HASHLEN ELSE li) - 1)
    IN  /\ tl \cup tr \cup bl \cup br = done
        /\ tl \cap tr = {} /\ tl \cap bl = {} /\ tl \cap br = {}
        /\ tr \cap bl = {} /\ tr \cap br = {} /\ bl \cap br = {}
        /\ Len(from.top_left) + Len(from.top_right)
             + Len(from.bot_left) + Len(from.bot_right) = Cardinality(done)
        /\ li >= HASHLEN =>
            /\ Cardinality(tl) = HASHLEN \div 4
            /\ Cardinality(tr) = HASHLEN \div 4
            /\ Cardinality(bl) = HASHLEN \div 4
            /\ Cardinality(br) = HASHLEN \div 4

\* C5 witness: the loop of set_subarea_medians has visited every index.
C5_Witness ==
    /\ li = HASHLEN
    /\ Len(vecs.top_left) = HASHLEN \div 4
    /\ Len(vecs.bot_right) = HASHLEN \div 4

\* C6: to_hex returns HASHLEN/4 characters, character k being the hex digit of
\* binary256[4k..4k+3] read most significant bit first; to_string_hex returns
\* the same characters as a String.
C6_HexEncoding ==
    /\ hex_hash # None =>
        /\ DOMAIN hex_hash[1] = HexIndices
        /\ \A k \in HexIndices : hex_hash[1][k] = nibble(encoded[1], k)
    /\ string_hex # None =>
        /\ Len(string_hex[1]) = HASHLEN \div 4
        /\ \A k \in HexIndices : string_hex[1][k + 1] = nibble(hash.binary256, k)

\* C6 witness: both renderings of a Hash built from an image, with a digit
\* other than 0 and F.
C6_Witness ==
    /\ kind = "from_grayimage"
    /\ hex_hash # None
    /\ string_hex # None
    /\ encoded = Some(hash.binary256)
    /\ \E k \in HexIndices : hex_hash[1][k] \notin {"0", "F"}

\* C7: the Hash that from_hexhash returns has grayimage256 and subarea_medians all zero.
C7_PartialReconstruction ==
    kind = "from_hexhash" =>
        /\ \A i \in Indices : hash.grayimage256[i] = 0
        /\ \A a \in 0..1 : \A b \in 0..1 : hash.subarea_medians[a][b] = 0

\* C7 witness: a Hash decoded from an outside hex array, with a bit set.
C7_Witness ==
    /\ kind = "from_hexhash"
    /\ hexhash # None
    /\ hexhash[1] \in ValidHex
    /\ \E i \in Indices : hash.binary256[i] = 1

\* C8: every element of binary256 of a constructed Hash is 0 or 1, and to_hex
\* never takes its exit branch.
C8_EncodingCannotFail ==
    /\ \A i \in Indices : hash.binary256[i] \in {0, 1}
    /\ outcome # "exit"

\* C8 witness: to_hex has returned for a Hash rebuilt from an outside hex array.
C8_Witness ==
    /\ outcome = "ok"
    /\ hex_hash # None
    /\ ~roundtrip
    /\ kind = "from_hexhash"
    /\ \E i \in Indices : hash.binary256[i] = 1

\* C9: i < HASHLEN/2 holds exactly when y < SIZE/2, and get_subarea(i) is the
\* label given by (x < SIZE/2, y < SIZE/2), with x = i mod SIZE, y = i div SIZE.
C9_VerticalHalf ==
    \A i \in 0 .. ((IF li > HASHLEN THEN HASHLEN ELSE li) - 1) :
        LET left == (i % SIZE) < SIZE \div 2
            top  == (i \div SIZE) < SIZE \div 2
        IN  /\ (i < HASHLEN \div 2) <=> top
            /\ i \in Range(from.top_left)  <=> (left /\ top)
            /\ i \in Range(from.top_right) <=> (~left /\ top)
            /\ i \in Range(from.bot_left)  <=> (left /\ ~top)
            /\ i \in Range(from.bot_right) <=> (~left /\ ~top)

\* C9 witness: the loop has labelled indices of all four subareas.
C9_Witness ==
    /\ li > HASHLEN \div 2
    /\ from.top_left # <<>> /\ from.top_right # <<>>
    /\ from.bot_left # <<>> /\ from.bot_right # <<>>

\* C10: after from_grayimage every subarea has at least HASHLEN/8 one-bits and
\* at most HASHLEN/8 zero-bits, so the hash has at least HASHLEN/2 one-bits.
C10_SetBitsLowerBound ==
    kind = "from_grayimage" =>
        /\ \A q \in SubAreas :
            /\ Cardinality({i \in members(q) : hash.binary256[i] = 1}) >= HASHLEN \div 8
            /\ Cardinality({i \in members(q) : hash.binary256[i] = 0}) <= HASHLEN \div 8
        /\ Cardinality({i \in Indices : hash.binary256[i] = 1}) >= HASHLEN \div 2

\* C10 witness: a built Hash with exactly HASHLEN/8 one-bits in a subarea.
C10_Witness ==
    /\ kind = "from_grayimage"
    /\ \E q \in SubAreas :
        Cardinality({i \in members(q) : hash.binary256[i] = 1}) = HASHLEN \div 8
====
